---- MODULE Spec2Model ----
(***************************************************************************)
(* A model of telegram_bot.py: the pure helpers (is_valid_ip, get_ip_info) *)
(* as operators computed the way the Python code computes them, and the    *)
(* handlers (start, help_command, ip_command, handle_message,              *)
(* error_handler) as a state machine over the updates in flight.           *)
(*                                                                         *)
(* Text that the code inspects character by character is a sequence of     *)
(* one-character strings, so that re.match, str.split, str.strip and int() *)
(* are computed, not assumed.                                              *)
(***************************************************************************)
EXTENDS Integers, Sequences, FiniteSets, TLC

VARIABLES
    pc,        \* per handling unit: the await the coroutine is suspended at
    update,    \* per handling unit: the update being handled
    log,       \* per handling unit: replies attempted and outbound GETs, in order
    result,    \* per handling unit: the local `result` of the handler
    running,   \* the polling loop started by main() is alive
    call,      \* function-level specification: the call under test
    ret        \* function-level specification: what the call returned

vars == <<pc, update, log, result, running, call, ret>>

(***************************************************************************)
(* Bounds of the model.                                                    *)
(***************************************************************************)
MaxInflight == 2      \* handling units that may be in flight together
MaxGroups == 5        \* dot-separated groups in a generated candidate

(***************************************************************************)
(* Characters and Python's string primitives.                              *)
(***************************************************************************)
Digits == {"0", "1", "2", "3", "4", "5", "6", "7", "8", "9"}

\* str.isspace() characters that occur in the model's alphabet
Whitespace == {" ", "\n", "\t", "\r"}

DigitValue(c) ==
    CASE c = "0" -> 0 [] c = "1" -> 1 [] c = "2" -> 2 [] c = "3" -> 3
      [] c = "4" -> 4 [] c = "5" -> 5 [] c = "6" -> 6 [] c = "7" -> 7
      [] c = "8" -> 8 [] c = "9" -> 9

AllDigits(s) == \A i \in 1..Len(s) : s[i] \in Digits

\* the value of a non-empty run of decimal digits
RECURSIVE DecimalValue(_)
DecimalValue(s) ==
    IF s = <<>> THEN 0
    ELSE 10 * DecimalValue(SubSeq(s, 1, Len(s) - 1)) + DigitValue(s[Len(s)])

RECURSIVE LStrip(_)
LStrip(s) ==
    IF s # <<>> /\ Head(s) \in Whitespace THEN LStrip(Tail(s)) ELSE s

RECURSIVE RStrip(_)
RStrip(s) ==
    IF s # <<>> /\ s[Len(s)] \in Whitespace
    THEN RStrip(SubSeq(s, 1, Len(s) - 1))
    ELSE s

\* str.strip()
strip(s) == RStrip(LStrip(s))

\* str.split('.'): the pieces between the dots, empty pieces kept
RECURSIVE SplitFrom(_, _, _)
SplitFrom(s, i, cur) ==
    IF i > Len(s) THEN <<cur>>
    ELSE IF s[i] = "." THEN <<cur>> \o SplitFrom(s, i + 1, <<>>)
    ELSE SplitFrom(s, i + 1, Append(cur, s[i]))

split(s) == SplitFrom(s, 1, <<>>)

\* int(part): surrounding whitespace is stripped and one sign accepted; anything
\* but a non-empty run of digits after that raises ValueError
IntBody(part) ==
    LET t == strip(part)
    IN  IF t # <<>> /\ Head(t) \in {"+", "-"} THEN Tail(t) ELSE t

IntRaises(part) == IntBody(part) = <<>> \/ ~AllDigits(IntBody(part))

IntValue(part) ==
    LET t == strip(part)
        v == DecimalValue(IntBody(part))
    IN  IF t # <<>> /\ Head(t) = "-" THEN 0 - v ELSE v

(***************************************************************************)
(* is_valid_ip.                                                            *)
(***************************************************************************)
\* \d{1,3} matched at position i: the positions a match can end before
DigitGroupEnds(s, i) ==
    {i + k : k \in {n \in 1..3 : i + n - 1 <= Len(s)
                                 /\ \A j \in i..(i + n - 1) : s[j] \in Digits}}

\* `$` without re.MULTILINE: at the end of the string, or just before a
\* newline that is the string's last character
DollarAt(s, i) == i = Len(s) + 1 \/ (i = Len(s) /\ s[i] = "\n")

\* (\d{1,3}\.){n}\d{1,3}$ matched at position i
RECURSIVE MatchTail(_, _, _)
MatchTail(s, i, n) ==
    \E j \in DigitGroupEnds(s, i) :
        IF n = 0 THEN DollarAt(s, j)
        ELSE j <= Len(s) /\ s[j] = "." /\ MatchTail(s, j + 1, n - 1)

DottedGroups == 3     \* the {3} of ipv4_pattern

\* re.match(ipv4_pattern, ip)
re_match(ip) == MatchTail(ip, 1, DottedGroups)

MaxOctet == 255

\* all(0 <= int(part) <= 255 for part in parts), left to right:
\* "True", "False", or "raise" when int() raises before a part fails
RECURSIVE all_in_range(_)
all_in_range(parts) ==
    IF parts = <<>> THEN "True"
    ELSE IF IntRaises(Head(parts)) THEN "raise"
    ELSE IF ~(0 <= IntValue(Head(parts)) /\ IntValue(Head(parts)) <= MaxOctet)
         THEN "False"
    ELSE all_in_range(Tail(parts))

is_valid_ip_leading_zero_rejected(ip) ==
    /\ re_match(ip)
    /\ all_in_range(split(ip)) = "True"
    /\ \A i \in 1..Len(split(ip)) :
           Len(split(ip)[i]) > 1 => Head(split(ip)[i]) # "0"

is_valid_ip(ip) == re_match(ip) /\ all_in_range(split(ip)) = "True"

is_valid_ip_raises(ip) == re_match(ip) /\ all_in_range(split(ip)) = "raise"

(***************************************************************************)
(* Python values, JSON bodies and the exceptions of the requests library.  *)
(***************************************************************************)
PyNone == [t |-> "None"]
PyText(chars) == [t |-> "str", v |-> chars]
PyNumber(literal) == [t |-> "num", v |-> literal]

\* str(x), as an f-string placeholder renders a value
PyStr(x) == IF x.t = "None" THEN <<"N", "o", "n", "e">> ELSE x.v

\* `not x`
Falsy(x) == x.t = "None" \/ (x.t = "str" /\ x.v = <<>>)

NA == <<"N", "/", "A">>

\* dict.get(key, 'N/A')
DictGet(data, key) == IF key \in DOMAIN data THEN data[key] ELSE PyText(NA)

\* the direct base classes of the exceptions the two GETs and the JSON
\* handling can raise
Bases(cls) ==
    CASE cls = "ConnectTimeout" -> {"ConnectionError", "Timeout"}
      [] cls = "ReadTimeout" -> {"Timeout"}
      [] cls = "ProxyError" -> {"ConnectionError"}
      [] cls = "SSLError" -> {"ConnectionError"}
      [] cls = "ConnectionError" -> {"RequestException"}
      [] cls = "Timeout" -> {"RequestException"}
      [] cls = "TooManyRedirects" -> {"RequestException"}
      [] cls = "JSONDecodeError" -> {"RequestException"}
      [] cls = "RequestException" -> {"Exception"}
      [] cls = "KeyError" -> {"Exception"}
      [] cls = "TypeError" -> {"Exception"}
      [] cls = "AttributeError" -> {"Exception"}
      [] OTHER -> {}

RECURSIVE IsSubclass(_, _)
IsSubclass(cls, base) ==
    cls = base \/ \E b \in Bases(cls) : IsSubclass(b, base)

Raise(cls) == [cls |-> cls, msg |-> cls]

(***************************************************************************)
(* get_ip_info.                                                            *)
(***************************************************************************)
ConnectionSentence == [tag |-> "connection"]
TimeoutSentence == [tag |-> "timeout"]
UnknownSentence(e) == [tag |-> "unknown", detail |-> e.msg]
RemoteSentence(ip_address) == [tag |-> "remote", ip |-> PyStr(ip_address)]

\* the except clauses, tried in the order they are written
except_clauses(e) ==
    IF IsSubclass(e.cls, "ConnectionError") THEN ConnectionSentence
    ELSE IF IsSubclass(e.cls, "Timeout") THEN TimeoutSentence
    ELSE UnknownSentence(e)

\* requests.get(...) followed by response.json(): the value, or what is raised
get_json(resp) ==
    IF resp.r = "raise" THEN [raised |-> TRUE, exc |-> resp.exc]
    ELSE IF resp.json.j = "invalid"
         THEN [raised |-> TRUE, exc |-> Raise("JSONDecodeError")]
    ELSE [raised |-> FALSE, json |-> resp.json]

\* response.json()['ip'] of the self-discovery call
discover(selfResp) ==
    LET got == get_json(selfResp)
    IN  IF got.raised THEN got
        ELSE IF got.json.j # "dict"
             THEN [raised |-> TRUE, exc |-> Raise("TypeError")]
        ELSE IF "ip" \notin DOMAIN got.json.data
             THEN [raised |-> TRUE, exc |-> Raise("KeyError")]
        ELSE [raised |-> FALSE, ip |-> got.json.data["ip"]]

\* the f-string template filled from the payload
format_info(data) ==
    [tag |-> "info",
     ip |-> PyStr(DictGet(data, "ip")),
     country |-> PyStr(DictGet(data, "country_name")),
     region |-> PyStr(DictGet(data, "region")),
     city |-> PyStr(DictGet(data, "city")),
     provider |-> PyStr(DictGet(data, "org")),
     org |-> PyStr(DictGet(data, "org")),
     latitude |-> PyStr(DictGet(data, "latitude")),
     longitude |-> PyStr(DictGet(data, "longitude")),
     timezone |-> PyStr(DictGet(data, "timezone"))]

\* the geolocation call and what is made of its payload
lookup(ip_address, geoResp) ==
    LET got == get_json(geoResp)
    IN  IF got.raised THEN except_clauses(got.exc)
        ELSE IF got.json.j = "null" THEN except_clauses(Raise("TypeError"))
        ELSE IF got.json.j # "dict" THEN except_clauses(Raise("AttributeError"))
        ELSE IF "error" \notin DOMAIN got.json.data
             THEN format_info(got.json.data)
        ELSE RemoteSentence(ip_address)

SelfGet == [e |-> "get", url |-> "ipify"]
GeoGet(ip_address) == [e |-> "get", url |-> "ipapi", ip_address |-> PyStr(ip_address)]

\* a variant that goes on to the geolocation call after a failed discovery
get_ip_info_lookup_after_failed_discovery(ip_address, selfResp, geoResp) ==
    LET found == discover(selfResp)
        working == IF ~Falsy(ip_address) THEN ip_address
                   ELSE IF found.raised THEN ip_address ELSE found.ip
    IN  [calls |-> (IF Falsy(ip_address) THEN <<SelfGet>> ELSE <<>>)
                     \o <<GeoGet(working)>>,
         result |-> lookup(working, geoResp)]

\* get_ip_info(ip_address), given what the two services answer: the GETs it
\* issues, in order, and the text it returns
get_ip_info(ip_address, selfResp, geoResp) ==
    IF Falsy(ip_address)
    THEN LET found == discover(selfResp)
         IN  IF found.raised
             THEN [calls |-> <<SelfGet>>, result |-> except_clauses(found.exc)]
             ELSE [calls |-> <<SelfGet, GeoGet(found.ip)>>,
                   result |-> lookup(found.ip, geoResp)]
    ELSE [calls |-> <<GeoGet(ip_address)>>,
          result |-> lookup(ip_address, geoResp)]

(***************************************************************************)
(* What the two services can answer.                                       *)
(***************************************************************************)
\* what requests.get(..., timeout=10) raises
RaisedByGet ==
    {"ConnectionError", "ProxyError", "SSLError", "ConnectTimeout",
     "ReadTimeout", "TooManyRedirects"}

Failures == {[r |-> "raise", exc |-> Raise(cls)] : cls \in RaisedByGet}

Body(json) == [r |-> "body", json |-> json]
JsonDict(data) == [j |-> "dict", data |-> data]

\* bodies that are not a JSON object
Malformed == {Body([j |-> "invalid"]), Body([j |-> "list"]), Body([j |-> "null"])}

Address8 == <<"8", ".", "8", ".", "8", ".", "8">>
Address1 == <<"1", ".", "1", ".", "1", ".", "1">>
Address9 == <<"9", ".", "9", ".", "9", ".", "9">>

GeoFields ==
    {"ip", "country_name", "region", "city", "org", "latitude", "longitude",
     "timezone"}

SampleValue(key) ==
    CASE key = "ip" -> PyText(Address8)
      [] key = "country_name" -> PyText(<<"U", "S">>)
      [] key = "region" -> PyText(<<"C", "A">>)
      [] key = "city" -> PyText(<<"M", "V">>)
      [] key = "org" -> PyText(<<"G", "o", "o", "g", "l", "e">>)
      [] key = "latitude" -> PyNumber(<<"3", "7", ".", "4">>)
      [] key = "longitude" -> PyNumber(<<"-", "1", "2", "2", ".", "1">>)
      [] key = "timezone" -> PyText(<<"U", "T", "C">>)
      [] key = "error" -> [t |-> "bool", v |-> <<"T", "r", "u", "e">>]

\* a payload: the keys it carries, and which of them are JSON null
Payload(keys, nulls) ==
    [k \in keys |-> IF k \in nulls THEN PyNone ELSE SampleValue(k)]

\* every payload without an error indicator over the eight fields
Payloads ==
    UNION {{Payload(keys, nulls) : nulls \in SUBSET keys} :
              keys \in SUBSET GeoFields}

FullPayload == Payload(GeoFields, {})

ErrorPayloads == {Payload({"error"}, {}), Payload({"error", "ip"}, {})}

GeoResponses ==
    Failures \cup Malformed
        \cup {Body(JsonDict(d)) : d \in Payloads \cup ErrorPayloads}

SelfAnswers ==
    {Body(JsonDict([k \in {"ip"} |-> PyText(Address9)])),
     Body(JsonDict([k \in {"ip"} |-> PyNone])),
     Body(JsonDict([k \in {"ip"} |-> PyText(<<>>)])),
     Body(JsonDict([k \in {"origin"} |-> PyText(Address9)]))}

SelfResponses == Failures \cup Malformed \cup SelfAnswers

\* the answers drawn when several handling units run together
FewGeoResponses ==
    {Body(JsonDict(FullPayload)), [r |-> "raise", exc |-> Raise("ReadTimeout")]}

FewSelfResponses ==
    {Body(JsonDict([k \in {"ip"} |-> PyText(Address9)])),
     [r |-> "raise", exc |-> Raise("ConnectionError")]}

(***************************************************************************)
(* Candidates for is_valid_ip.                                             *)
(***************************************************************************)
GroupSet ==
    {<<"2", "5", "5">>, <<"0", "1">>, <<"0", "0", "8">>, <<"2", "5", "6">>,
     <<"1", "a">>, <<>>, <<"0", "2", "5", "5">>, <<"0">>}

RECURSIVE Join(_)
Join(groups) ==
    IF Len(groups) = 1 THEN groups[1]
    ELSE groups[1] \o <<".">> \o Join(Tail(groups))

\* what is put before and after the dotted groups
Affixes ==
    {<<<<>>, <<>>>>, <<<<>>, <<"\n">>>>, <<<<" ">>, <<>>>>, <<<<>>, <<"a">>>>}

\* a candidate: some groups joined by dots, between an affix
Candidate(groups, affix) == affix[1] \o Join(groups) \o affix[2]

(***************************************************************************)
(* The handling units.                                                     *)
(***************************************************************************)
Units == 1..MaxInflight

NoUpdate == [kind |-> "none"]
NoResult == [tag |-> "none"]
NoCall == [fn |-> "none"]
NotReturned == [done |-> FALSE]

\* the replies whose text does not depend on a lookup
Welcome == [tag |-> "welcome"]
Help == [tag |-> "help"]
Fetching == [tag |-> "fetching"]      \* the acknowledgment of a given address
Detecting == [tag |-> "detecting"]    \* the acknowledgment of a self lookup
Guidance == [tag |-> "guidance"]
Apology == [tag |-> "apology"]

\* update.message.reply_text(text) awaited in function `by`: delivered, or raised
Reply(by, text, ok) == [e |-> "reply", by |-> by, text |-> text, ok |-> ok]

Command(name, args) == [kind |-> "command", name |-> name, args |-> args]
Text(text) == [kind |-> "text", text |-> text]

Nope == <<"n", "o", "p", "e">>

\* the updates a handler is registered for; a command's arguments are the
\* whitespace-separated words after it
Updates ==
    {Command("start", <<>>), Command("help", <<>>), Command("ip", <<>>),
     Command("ip", <<Nope, Address8>>),
     Text(<<" ">> \o Address1 \o <<"\n">>),
     Text(<<"2", "5", "6">> \o SubSeq(Address1, 2, 7))}

\* the handler main() registers for an update
Handler(u) ==
    IF u.kind = "command"
    THEN (CASE u.name = "start" -> "start"
            [] u.name = "help" -> "help_command"
            [] u.name = "ip" -> "ip_command")
    ELSE "handle_message"

\* where a coroutine goes on after an awaited reply: an exception raised by
\* the reply leaves the handler and reaches the registered error handler
AfterReply(ok, next) == IF ok THEN next ELSE "error_handler"

\* the application takes an update from the polling loop and calls its handler
dispatch(s) ==
    /\ running
    /\ pc[s] = "idle"
    /\ \E u \in Updates :
         /\ update' = [update EXCEPT ![s] = u]
         /\ pc' = [pc EXCEPT ![s] = Handler(u)]
    /\ UNCHANGED <<log, result, running, call, ret>>

start(s) ==
    /\ running
    /\ pc[s] = "start"
    /\ \E ok \in BOOLEAN :
         /\ log' = [log EXCEPT ![s] = Append(@, Reply("start", Welcome, ok))]
         /\ pc' = [pc EXCEPT ![s] = AfterReply(ok, "done")]
    /\ UNCHANGED <<update, result, running, call, ret>>

help_command(s) ==
    /\ running
    /\ pc[s] = "help_command"
    /\ \E ok \in BOOLEAN :
         /\ log' = [log EXCEPT ![s] = Append(@, Reply("help_command", Help, ok))]
         /\ pc' = [pc EXCEPT ![s] = AfterReply(ok, "done")]
    /\ UNCHANGED <<update, result, running, call, ret>>

\* a variant that goes to the lookup without acknowledging
ip_command_without_acknowledgment(s) ==
    /\ running
    /\ pc[s] = "ip_command"
    /\ pc' = [pc EXCEPT ![s] = "ip_command_lookup"]
    /\ UNCHANGED <<update, log, result, running, call, ret>>

\* ip_command up to the end of its first await (either branch)
ip_command(s) ==
    /\ running
    /\ pc[s] = "ip_command"
    /\ \E ok \in BOOLEAN :
         /\ log' = [log EXCEPT ![s] =
                       Append(@, Reply("ip_command",
                                       IF update[s].args # <<>> THEN Fetching
                                       ELSE Detecting, ok))]
         /\ pc' = [pc EXCEPT ![s] = AfterReply(ok, "ip_command_lookup")]
    /\ UNCHANGED <<update, result, running, call, ret>>

\* the unit's step from a returned acknowledgment to the awaited result reply:
\* get_ip_info runs to its end without yielding
Lookup(s, ip_address, next) ==
    \E sr \in FewSelfResponses, g \in FewGeoResponses :
        LET got == get_ip_info(ip_address, sr, g)
        IN  /\ log' = [log EXCEPT ![s] = @ \o got.calls]
            /\ result' = [result EXCEPT ![s] = got.result]
            /\ pc' = [pc EXCEPT ![s] = next]

\* a variant that looks the caller's own address up whatever the argument
ip_command_lookup_ignores_argument(s) ==
    /\ running
    /\ pc[s] = "ip_command_lookup"
    /\ Lookup(s, PyText(<<>>), "ip_command_reply")
    /\ UNCHANGED <<update, running, call, ret>>

\* result = get_ip_info(context.args[0]) or get_ip_info('')
ip_command_lookup(s) ==
    /\ running
    /\ pc[s] = "ip_command_lookup"
    /\ Lookup(s,
              IF update[s].args # <<>> THEN PyText(update[s].args[1])
              ELSE PyText(<<>>),
              "ip_command_reply")
    /\ UNCHANGED <<update, running, call, ret>>

ip_command_reply(s) ==
    /\ running
    /\ pc[s] = "ip_command_reply"
    /\ \E ok \in BOOLEAN :
         /\ log' = [log EXCEPT ![s] = Append(@, Reply("ip_command", result[s], ok))]
         /\ pc' = [pc EXCEPT ![s] = AfterReply(ok, "done")]
    /\ UNCHANGED <<update, result, running, call, ret>>

\* user_message = update.message.text.strip()
user_message(s) == strip(update[s].text)

\* a variant that takes every text for an address
handle_message_without_validation(s) ==
    /\ running
    /\ pc[s] = "handle_message"
    /\ \E ok \in BOOLEAN :
         /\ log' = [log EXCEPT ![s] = Append(@, Reply("handle_message", Fetching, ok))]
         /\ pc' = [pc EXCEPT ![s] = AfterReply(ok, "handle_message_lookup")]
    /\ UNCHANGED <<update, result, running, call, ret>>

\* handle_message up to the end of its first await (either branch)
handle_message(s) ==
    /\ running
    /\ pc[s] = "handle_message"
    /\ \E ok \in BOOLEAN :
         /\ log' = [log EXCEPT ![s] =
                       Append(@, Reply("handle_message",
                                       IF is_valid_ip(user_message(s)) THEN Fetching
                                       ELSE Guidance, ok))]
         /\ pc' = [pc EXCEPT ![s] =
                      AfterReply(ok, IF is_valid_ip(user_message(s))
                                     THEN "handle_message_lookup"
                                     ELSE "done")]
    /\ UNCHANGED <<update, result, running, call, ret>>

\* a variant that passes the text as received
handle_message_lookup_unstripped(s) ==
    /\ running
    /\ pc[s] = "handle_message_lookup"
    /\ Lookup(s, PyText(update[s].text), "handle_message_reply")
    /\ UNCHANGED <<update, running, call, ret>>

\* result = get_ip_info(user_message)
handle_message_lookup(s) ==
    /\ running
    /\ pc[s] = "handle_message_lookup"
    /\ Lookup(s, PyText(user_message(s)), "handle_message_reply")
    /\ UNCHANGED <<update, running, call, ret>>

handle_message_reply(s) ==
    /\ running
    /\ pc[s] = "handle_message_reply"
    /\ \E ok \in BOOLEAN :
         /\ log' = [log EXCEPT ![s] =
                       Append(@, Reply("handle_message", result[s], ok))]
         /\ pc' = [pc EXCEPT ![s] = AfterReply(ok, "done")]
    /\ UNCHANGED <<update, result, running, call, ret>>

\* a variant in which a handler's failure ends the polling loop
error_handler_stops_service(s) ==
    /\ running
    /\ pc[s] = "error_handler"
    /\ running' = FALSE
    /\ pc' = [pc EXCEPT ![s] = "done"]
    /\ UNCHANGED <<update, log, result, call, ret>>

\* error_handler for what a handler of this update raised: when the update
\* and its message are there (they are, for an update a handler was called
\* with) the apology is replied; what that reply raises is logged by the
\* application and goes no further
error_handler(s) ==
    /\ running
    /\ pc[s] = "error_handler"
    /\ \E ok \in BOOLEAN :
         log' = [log EXCEPT ![s] =
                    IF update[s].kind # "none"
                    THEN Append(@, Reply("error_handler", Apology, ok))
                    ELSE @]
    /\ pc' = [pc EXCEPT ![s] = "done"]
    /\ UNCHANGED <<update, result, running, call, ret>>

\* the update is discarded once handled; the unit takes the next one
retire(s) ==
    /\ running
    /\ pc[s] = "done"
    /\ pc' = [pc EXCEPT ![s] = "idle"]
    /\ update' = [update EXCEPT ![s] = NoUpdate]
    /\ log' = [log EXCEPT ![s] = <<>>]
    /\ result' = [result EXCEPT ![s] = NoResult]
    /\ UNCHANGED <<running, call, ret>>

Init ==
    /\ pc = [s \in Units |-> "idle"]
    /\ update = [s \in Units |-> NoUpdate]
    /\ log = [s \in Units |-> <<>>]
    /\ result = [s \in Units |-> NoResult]
    /\ running = TRUE
    /\ call = NoCall
    /\ ret = NotReturned

Next ==
    \E s \in Units :
        \/ dispatch(s)
        \/ start(s)
        \/ help_command(s)
        \/ ip_command(s)
        \/ ip_command_lookup(s)
        \/ ip_command_reply(s)
        \/ handle_message(s)
        \/ handle_message_lookup(s)
        \/ handle_message_reply(s)
        \/ error_handler(s)
        \/ retire(s)

Spec == Init /\ [][Next]_vars

(***************************************************************************)
(* The functions on their own: one call, drawn at the start, and its       *)
(* return.                                                                 *)
(***************************************************************************)
GetIpInfoCalls ==
    {[fn |-> "get_ip_info", ip_address |-> PyText(Address8),
      selfResp |-> Body([j |-> "invalid"]), geoResp |-> g] : g \in GeoResponses}
        \cup {[fn |-> "get_ip_info", ip_address |-> PyText(<<>>),
               selfResp |-> sr, geoResp |-> g] :
                  sr \in SelfResponses, g \in FewGeoResponses}

InitFn ==
    /\ pc = [s \in Units |-> "idle"]
    /\ update = [s \in Units |-> NoUpdate]
    /\ log = [s \in Units |-> <<>>]
    /\ result = [s \in Units |-> NoResult]
    /\ running = TRUE
    /\ \/ call \in GetIpInfoCalls
       \/ \E n \in 1..MaxGroups : \E g \in [1..n -> GroupSet] : \E a \in Affixes :
              call = [fn |-> "is_valid_ip", ip |-> Candidate(g, a)]
    /\ ret = NotReturned

call_is_valid_ip ==
    /\ call.fn = "is_valid_ip"
    /\ ~ret.done
    /\ ret' = [done |-> TRUE,
               raised |-> is_valid_ip_raises(call.ip),
               value |-> is_valid_ip(call.ip)]
    /\ UNCHANGED <<pc, update, log, result, running, call>>

call_get_ip_info ==
    /\ call.fn = "get_ip_info"
    /\ ~ret.done
    /\ ret' = [done |-> TRUE,
               value |-> get_ip_info(call.ip_address, call.selfResp, call.geoResp)]
    /\ UNCHANGED <<pc, update, log, result, running, call>>

NextFn == call_is_valid_ip \/ call_get_ip_info

SpecFn == InitFn /\ [][NextFn]_vars

(***************************************************************************)
(* What the claims about the functions speak of.                           *)
(***************************************************************************)
DotPositions(s) == {i \in 1..Len(s) : s[i] = "."}

\* the pieces of s between its ends and its dots
Pieces(s) ==
    LET cuts == {0} \cup DotPositions(s) \cup {Len(s) + 1}
    IN  {SubSeq(s, a + 1, b - 1) :
            <<a, b>> \in {p \in cuts \X cuts :
                             p[1] < p[2] /\ ~\E c \in cuts : p[1] < c /\ c < p[2]}}

\* a group of 1 to 3 decimal digits whose value is in 0..255
Octet(g) == Len(g) \in 1..3 /\ AllDigits(g) /\ DecimalValue(g) \in 0..255

\* exactly four dot-separated groups, each an octet, and nothing else
FourOctets(s) == Cardinality(DotPositions(s)) = 3 /\ \A g \in Pieces(s) : Octet(g)

\* a group of two or three digits whose first digit is 0
LeadingZero(g) == Len(g) \in 2..3 /\ AllDigits(g) /\ g[1] = "0"

ValidatorReturned == call.fn = "is_valid_ip" /\ ret.done
LookupReturned == call.fn = "get_ip_info" /\ ret.done

\* C3: is_valid_ip(s) is true exactly for the strings of four dot-separated
\* groups of 1 to 3 decimal digits valued 0..255, false for every other
\* string, and never raises.
C3_ValidatorExact ==
    ValidatorReturned => ~ret.raised /\ (ret.value <=> FourOctets(call.ip))

\* C6: is_valid_ip is false for every candidate in which some dot-separated
\* group has a leading zero.
C6_LeadingZeroInvalid ==
    (ValidatorReturned /\ \E g \in Pieces(call.ip) : LeadingZero(g))
        => ret.value = FALSE

\* C6, amended: is_valid_ip is true for every candidate of exactly four
\* dot-separated groups of 1 to 3 digits valued 0..255 in which some group has
\* a leading zero: leading zeros do not invalidate a candidate.
C6_LeadingZeroAccepted ==
    (/\ ValidatorReturned
     /\ FourOctets(call.ip)
     /\ \E g \in Pieces(call.ip) : LeadingZero(g))
        => ret.value = TRUE /\ ~ret.raised

C6_Witness ==
    /\ ValidatorReturned
    /\ call.ip = <<"0", "1", ".", "0", "0", "8", ".", "0", ".", "2", "5", "5">>
    /\ ret.value = TRUE

\* whether the self-discovery answer carries an "ip" key
HasIpKey(resp) ==
    resp.r = "body" /\ resp.json.j = "dict" /\ "ip" \in DOMAIN resp.json.data

\* the failure an outbound call of the invocation raised, if one did
SelfRaised == Falsy(call.ip_address) /\ call.selfResp.r = "raise"
GeoRaised ==
    /\ Falsy(call.ip_address) => HasIpKey(call.selfResp)
    /\ call.geoResp.r = "raise"
RaisedFailure == IF SelfRaised THEN call.selfResp.exc ELSE call.geoResp.exc

DeadlineExceeded == {"ConnectTimeout", "ReadTimeout"}
ConnectionLevel == {"ConnectionError", "ProxyError", "SSLError"}

\* C4: a failure raised by either outbound call is returned as a sentence:
\* the Timeout sentence when the deadline was exceeded (connecting or
\* reading), the Connection sentence for the other connection-level
\* failures, the Unknown sentence with the failure's description otherwise.
C4_Classification ==
    (LookupReturned /\ (SelfRaised \/ GeoRaised)) =>
        ret.value.result =
            IF RaisedFailure.cls \in DeadlineExceeded THEN TimeoutSentence
            ELSE IF RaisedFailure.cls \in ConnectionLevel THEN ConnectionSentence
            ELSE UnknownSentence(RaisedFailure)

\* C5: what a slot must show for a payload field
HasValue(data, key) == key \in DOMAIN data /\ data[key].t # "None"
Shown(data, key) == IF HasValue(data, key) THEN data[key].v ELSE NA

GeoAnswered ==
    /\ ~Falsy(call.ip_address)
    /\ call.geoResp.r = "body"
    /\ call.geoResp.json.j = "dict"
    /\ "error" \notin DOMAIN call.geoResp.json.data

\* C5: for a payload without an error indicator, every slot is rendered: a
\* field without a value as "N/A", a field with a value as that value.
C5_Placeholders ==
    (LookupReturned /\ GeoAnswered) =>
        LET data == call.geoResp.json.data
            text == ret.value.result
        IN  /\ text.tag = "info"
            /\ HasValue(data, "ip") => text.ip = data["ip"].v
            /\ text.country = Shown(data, "country_name")
            /\ text.region = Shown(data, "region")
            /\ text.city = Shown(data, "city")
            /\ text.provider = Shown(data, "org")
            /\ text.org = Shown(data, "org")
            /\ text.latitude = Shown(data, "latitude")
            /\ text.longitude = Shown(data, "longitude")
            /\ text.timezone = Shown(data, "timezone")

Classified == {"connection", "timeout", "unknown"}

\* the self-discovery call did not yield an "ip" value: it raised, or its
\* body is no JSON object, or the object has no "ip" key
DiscoveryRaised ==
    Falsy(call.ip_address) /\ (call.selfResp.r = "raise" \/ ~HasIpKey(call.selfResp))

\* the self-discovery call yielded no usable address: the above, or an "ip"
\* that is null or empty
DiscoveryUnusable ==
    \/ DiscoveryRaised
    \/ (Falsy(call.ip_address) /\ HasIpKey(call.selfResp)
          /\ Falsy(call.selfResp.json.data["ip"]))

GeoFailed == call.geoResp.r = "raise" \/ call.geoResp.json.j # "dict"

\* at most two GETs, a self-discovery first and only for an empty address,
\* then at most one geolocation, none repeated
CallBudget(calls) ==
    /\ Len(calls) <= 2
    /\ \A i \in 1..Len(calls) :
           calls[i].url = "ipify" => i = 1 /\ Falsy(call.ip_address)
    /\ \A i \in 1..Len(calls) : calls[i].url = "ipapi" => i = Len(calls)
    /\ Falsy(call.ip_address) => calls # <<>> /\ calls[1] = SelfGet

\* C8: an invocation of get_ip_info makes at most two outbound calls and
\* repeats none; a failure of either call ends it with a classified error;
\* when self-discovery yields no usable address no geolocation call is made.
C8_NoLookupAfterUnusableDiscovery ==
    LookupReturned =>
        LET calls == ret.value.calls
        IN  /\ CallBudget(calls)
            /\ DiscoveryUnusable =>
                   calls = <<SelfGet>> /\ ret.value.result.tag \in Classified
            /\ (calls[Len(calls)].url = "ipapi" /\ GeoFailed) =>
                   ret.value.result.tag \in Classified

\* C8, amended: as above, with "self-discovery fails" meaning that it raised or
\* that no "ip" key could be read from its body; an "ip" that is present but
\* null or empty is taken as the address and the geolocation call is made.
C8_NoLookupAfterFailedDiscovery ==
    LookupReturned =>
        LET calls == ret.value.calls
        IN  /\ CallBudget(calls)
            /\ DiscoveryRaised =>
                   calls = <<SelfGet>> /\ ret.value.result.tag \in Classified
            /\ (Falsy(call.ip_address) /\ ~DiscoveryRaised) =>
                   calls = <<SelfGet, GeoGet(call.selfResp.json.data["ip"])>>
            /\ ~Falsy(call.ip_address) => calls = <<GeoGet(call.ip_address)>>
            /\ (calls[Len(calls)].url = "ipapi" /\ GeoFailed) =>
                   ret.value.result.tag \in Classified

C8_Witness ==
    /\ LookupReturned
    /\ Falsy(call.ip_address)
    /\ call.selfResp = [r |-> "raise", exc |-> Raise("ReadTimeout")]
    /\ ret.value.calls = <<SelfGet>>
    /\ ret.value.result = TimeoutSentence

(***************************************************************************)
(* What the claims about the handlers speak of.                            *)
(***************************************************************************)
Gets(l) == SelectSeq(l, LAMBDA ev : ev.e = "get")
SelfGets(l) == SelectSeq(l, LAMBDA ev : ev.e = "get" /\ ev.url = "ipify")
GeoGets(l) == SelectSeq(l, LAMBDA ev : ev.e = "get" /\ ev.url = "ipapi")
RepliesBy(l, by) == SelectSeq(l, LAMBDA ev : ev.e = "reply" /\ ev.by = by)
Apologies(l) == RepliesBy(l, "error_handler")

IpWithArg(s) ==
    update[s].kind = "command" /\ update[s].name = "ip" /\ update[s].args # <<>>
IpNoArg(s) ==
    update[s].kind = "command" /\ update[s].name = "ip" /\ update[s].args = <<>>
FreeText(s) == update[s].kind = "text"

\* the replies of the unit's own handler, error_handler's left out
HandlerReplies(s) == RepliesBy(log[s], Handler(update[s]))

\* a reply awaited by the unit's handler raised
Raised(s) ==
    update[s].kind # "none" /\ \E i \in 1..Len(HandlerReplies(s)) :
                                   ~HandlerReplies(s)[i].ok

\* the handler and, if it raised, error_handler are over
Over(s) == pc[s] = "done"

\* C1: handling an /ip command with an argument issues exactly one
\* geolocation call, for the first argument as given, and no self-discovery.
C1_ExactlyOneLookup ==
    \A s \in Units :
        (IpWithArg(s) /\ Over(s)) =>
            /\ SelfGets(log[s]) = <<>>
            /\ GeoGets(log[s]) = <<GeoGet(PyText(update[s].args[1]))>>

\* C1, amended: handling an /ip command with an argument issues no
\* self-discovery call and at most one geolocation call, for the first
\* argument as given: exactly one when the acknowledgment reply was
\* delivered, none when sending the acknowledgment raised.
C1_OneLookupOnceAcknowledged ==
    \A s \in Units :
        IpWithArg(s) =>
            /\ SelfGets(log[s]) = <<>>
            /\ GeoGets(log[s]) \in {<<>>, <<GeoGet(PyText(update[s].args[1]))>>}
            /\ Over(s) => (Len(GeoGets(log[s])) = 1 <=> log[s][1].ok)

C1_Witness ==
    \E s \in Units :
        /\ Over(s)
        /\ update[s] = Command("ip", <<Nope, Address8>>)
        /\ Gets(log[s]) = <<GeoGet(PyText(Nope))>>

PipelineRan(s) == result[s] # NoResult

Acknowledgment(s) == IF IpNoArg(s) THEN Detecting ELSE Fetching

\* C7: in a handling that runs the lookup pipeline the log is: the delivered
\* acknowledgment, then the outbound calls (a self-discovery only first and
\* only without a given address, a geolocation only last), then, once the
\* handler has gone on, exactly one reply of the handler carrying the result;
\* no call is logged before the pipeline runs.
C7_FixedOrder ==
    \A s \in Units :
        /\ (update[s].kind # "none" /\ ~PipelineRan(s)) => Gets(log[s]) = <<>>
        /\ PipelineRan(s) =>
             LET l == log[s]
                 calls == Gets(l)
                 n == Len(calls)
                 h == Handler(update[s])
             IN  /\ l[1] = Reply(h, Acknowledgment(s), TRUE)
                 /\ n \in 1..2
                 /\ SubSeq(l, 2, n + 1) = calls
                 /\ \A i \in 1..n : calls[i].url = "ipify" => i = 1 /\ IpNoArg(s)
                 /\ \A i \in 1..n : calls[i].url = "ipapi" => i = n
                 /\ IF pc[s] \in {"ip_command_reply", "handle_message_reply"}
                    THEN Len(l) = n + 1
                    ELSE /\ Len(HandlerReplies(s)) = 2
                         /\ Len(l) >= n + 2
                         /\ l[n + 2].e = "reply"
                         /\ l[n + 2].by = h
                         /\ l[n + 2].text = result[s]

C7_Witness ==
    \E s \in Units :
        /\ Over(s)
        /\ IpNoArg(s)
        /\ Len(log[s]) = 4
        /\ log[s][1] = Reply("ip_command", Detecting, TRUE)
        /\ log[s][2] = SelfGet
        /\ log[s][3] = GeoGet(PyText(Address9))
        /\ log[s][4] = Reply("ip_command", result[s], TRUE)
        /\ result[s].tag = "info"

\* C9: a geolocation call of a free-text handling carries the stripped text,
\* which satisfies is_valid_ip; one of an /ip command with an argument carries
\* the first argument, non-empty; one of an /ip command without argument
\* follows a self-discovery; no other handling issues one.
C9_LookupAddresses ==
    \A s \in Units : \A i \in 1..Len(log[s]) :
        (log[s][i].e = "get" /\ log[s][i].url = "ipapi") =>
            \/ /\ FreeText(s)
               /\ log[s][i].ip_address = strip(update[s].text)
               /\ is_valid_ip(log[s][i].ip_address)
            \/ /\ IpWithArg(s)
               /\ log[s][i].ip_address = update[s].args[1]
               /\ log[s][i].ip_address # <<>>
            \/ /\ IpNoArg(s)
               /\ i > 1
               /\ log[s][i - 1] = SelfGet

C9_Witness ==
    \E s \in Units :
        /\ update[s] = Text(<<" ">> \o Address1 \o <<"\n">>)
        /\ GeoGets(log[s]) = <<GeoGet(PyText(Address1))>>

\* what the unit's handler replies when nothing raises
Routed(s) ==
    LET h == Handler(update[s])
    IN  CASE h = "start" -> <<Welcome>>
          [] h = "help_command" -> <<Help>>
          [] h = "ip_command" -> <<Acknowledgment(s), result[s]>>
          [] h = "handle_message" ->
                IF is_valid_ip(strip(update[s].text))
                THEN <<Fetching, result[s]>>
                ELSE <<Guidance>>

\* the places a unit can be at; every action of a unit is guarded by the
\* service being up and by the unit's own place, nothing else
Places ==
    {"idle", "start", "help_command", "ip_command", "ip_command_lookup",
     "ip_command_reply", "handle_message", "handle_message_lookup",
     "handle_message_reply", "error_handler", "done"}

====
